---------------------------- MODULE Spec2Model ----------------------------
(***************************************************************************)
(* A model of the sprite generators of scripts/:                           *)
(*   legendary-sprite-generator.py  (RetroColorPalette, LegendarySprite,   *)
(*                                   LegendarySpriteGenerator, main)       *)
(*   create-enhanced-sprite.py, create-sample-sprite.py (the __main__      *)
(*                                   guards and the frame loops)           *)
(*                                                                         *)
(* Colours are triples <<r, g, b>>, pixels are 4-tuples <<r, g, b, a>>.    *)
(* Python indexes are 0-based: a palette index i names colors[i + 1].      *)
(***************************************************************************)
EXTENDS Integers, Sequences, FiniteSets, TLC

VARIABLES
    colors,     \* RetroColorPalette.colors: the ordered list of stored triples
    owner,      \* what holds the palette: "none", "palette" or "sprite"
    script,     \* the run of add_color calls the driver replays
    pos,        \* how many calls of that run have been made
    first,      \* history: raw colour -> index returned by its first add_color
    call,       \* history: the last call made, [op, arg, ret]
    slots,      \* the indexes the replayed calls returned (skin_base, ...)
    frame,      \* the frame buffer being drawn: [h, w, px], px[<<y, x>>] a pixel
    raised,     \* the exception last raised and the step that raised it, or NoError
    sprite,     \* LegendarySprite: [name, width, height]
    frames,     \* LegendarySprite.frames: the frame buffers in insertion order
    files,      \* the files written so far: file name -> content
    out,        \* the lines printed so far
    prog,       \* the script that runs: "legendary", "enhanced" or "sample"
    pc,         \* where the running script is
    shapes      \* the ImageDraw calls made on the 64 x 64 image, in order

vars == <<colors, owner, script, pos, first, call, slots, frame, raised,
          sprite, frames, files, out, prog, pc, shapes>>

paletteVars == <<colors, owner, script, pos, first, slots>>
spriteVars == <<sprite, frames, files, out>>
progVars == <<prog, pc, shapes>>

NoCall == [op |-> "none", arg |-> <<>>, ret |-> -1]

\* No frame buffer yet.
NoFrame == [h |-> 0, w |-> 0, px |-> <<>>]

\* Nothing raised.
NoError == [exc |-> "none", at |-> "none"]

\* No sprite yet.
NoSprite == [name |-> "none", width |-> 0, height |-> 0]

(***************************************************************************)
(* RetroColorPalette                                                       *)
(***************************************************************************)

\* `if len(self.colors) < 16`
MaxPaletteColors == 16

\* Rounding to the nearest multiple of 8 instead of dropping the low bits.
Quantize_rounding(v) == ((v + 4) \div 8) * 8

\* (v >> 3) << 3 on a non-negative int: the low three bits are dropped.
Quantize(v) == (v \div 8) * 8

QuantizeRGB(c) == <<Quantize(c[1]), Quantize(c[2]), Quantize(c[3])>>

\* `color in self.colors`
Contains(cols, c) == \E i \in 1..Len(cols) : cols[i] = c

\* `self.colors.index(color)`: the 0-based position of the first equal entry.
IndexOf(cols, c) ==
    (CHOOSE i \in 1..Len(cols) :
        cols[i] = c /\ \A j \in 1..(i - 1) : cols[j] # c) - 1

\* (r-pr)**2 + (g-pg)**2 + (b-pb)**2.  The code compares the square roots
\* (** 0.5) of these sums; on the integers 0..3*255^2 the double square root
\* is strictly increasing, so the comparisons of the roots are those of the
\* sums.
DistSq(c, p) ==
    (c[1] - p[1]) * (c[1] - p[1]) + (c[2] - p[2]) * (c[2] - p[2])
        + (c[3] - p[3]) * (c[3] - p[3])

\* The comparison written `<=`: among equally near entries the last one wins.
Closer_or_equal(dist, min_dist) == min_dist = -1 \/ dist <= min_dist

\* `if dist < min_dist`; min_dist starts as float('inf'), modelled as -1.
Closer(dist, min_dist) == min_dist = -1 \/ dist < min_dist

\* The loop of find_closest_color from entry i on, carrying min_dist and
\* closest_index.
RECURSIVE ClosestLoop(_, _, _, _, _)
ClosestLoop(cols, c, i, min_dist, closest_index) ==
    IF i > Len(cols) THEN closest_index
    ELSE LET dist == DistSq(c, cols[i])
         IN  IF Closer(dist, min_dist)
             THEN ClosestLoop(cols, c, i + 1, dist, i - 1)
             ELSE ClosestLoop(cols, c, i + 1, min_dist, closest_index)

find_closest_color(cols, c) == ClosestLoop(cols, c, 1, -1, 0)

\* The membership test left out: every colour counts as new.
IsNew_unchecked(cols, color) == TRUE

\* `if color not in self.colors`
IsNew(cols, color) == ~Contains(cols, color)

\* The capacity test off by one: a seventeenth colour is let in.
HasRoom_off_by_one(cols) == Len(cols) <= MaxPaletteColors

\* `if len(self.colors) < 16`
HasRoom(cols) == Len(cols) < MaxPaletteColors

\* The colour put in front of the list instead of at its end.
Store_in_front(cols, color) == <<color>> \o cols

\* `self.colors.append(color)`
Store(cols, color) == Append(cols, color)

\* add_color(r, g, b): the palette after the call and the index returned.
add_color(cols, c) ==
    LET color == QuantizeRGB(c)
    IN  IF IsNew(cols, color)
        THEN IF HasRoom(cols)
             THEN [colors |-> Store(cols, color),
                   ret    |-> IndexOf(Store(cols, color), color)]
             ELSE [colors |-> cols, ret |-> find_closest_color(cols, color)]
        ELSE [colors |-> cols, ret |-> IndexOf(cols, color)]


(***************************************************************************)
(* LegendarySprite.__init__: a new palette, then add_color(0, 0, 0).       *)
(***************************************************************************)

\* `self.palette.add_color(0, 0, 0)  # Transparent black`
TransparentBlack == <<0, 0, 0>>

\* A constructor that forgets the sentinel: the palette starts empty.
LegendarySprite_palette_empty == [colors |-> <<>>, ret |-> 0]

\* The palette a new LegendarySprite holds and what its add_color returned.
LegendarySprite_palette == add_color(<<>>, TransparentBlack)

(***************************************************************************)
(* The add_color calls of the two sprites the generator builds.            *)
(***************************************************************************)

\* create_enhanced_player_sprite: skin, hair, jacket, pants, shoes, shirt.
PlayerColours ==
    << <<255, 220, 177>>, <<210, 180, 140>>, <<255, 240, 200>>,
       <<101, 67, 33>>,   <<70, 45, 20>>,    <<140, 95, 50>>,
       <<72, 118, 170>>,  <<50, 85, 125>>,   <<100, 150, 200>>,
       <<45, 45, 60>>,    <<30, 30, 40>>,    <<65, 65, 85>>,
       <<30, 30, 30>>,    <<240, 240, 240>> >>

\* create_urban_tileset: concrete, brick, asphalt, lines, grass.
TileColours ==
    << <<128, 128, 128>>, <<96, 96, 96>>,   <<160, 160, 160>>,
       <<180, 100, 80>>,  <<140, 70, 50>>,  <<220, 140, 120>>,
       <<64, 64, 64>>,    <<32, 32, 32>>,
       <<255, 255, 0>>,   <<255, 255, 255>>,
       <<64, 128, 64>>,   <<32, 96, 32>>,   <<96, 160, 96>> >>

(***************************************************************************)
(* The palette driver: a palette is constructed (bare, or inside a         *)
(* LegendarySprite), then add_color is called: a run of calls replayed in  *)
(* order, and, before the run starts and after it ends, any colour of      *)
(* FreeColours any number of times.                                        *)
(***************************************************************************)

\* Twenty colours whose quantized triples are pairwise distinct.  The last
\* four meet a full palette: <<27,5,3>> is as far from entry 2 as from entry
\* 3, <<8,8,0>> as far from entry 0 as from entries 3 and 4, <<83,85,87>> as
\* far from entry 6 as from entry 13.
Spectrum20 ==
    << <<0, 0, 0>>,       <<255, 255, 255>>, <<33, 1, 2>>,      <<16, 0, 0>>,
       <<0, 16, 0>>,      <<0, 0, 23>>,      <<64, 64, 64>>,    <<128, 0, 0>>,
       <<0, 128, 0>>,     <<0, 0, 128>>,     <<200, 200, 0>>,   <<0, 200, 200>>,
       <<200, 0, 200>>,   <<96, 96, 96>>,    <<48, 0, 0>>,      <<160, 160, 160>>,
       <<27, 5, 3>>,      <<8, 8, 0>>,       <<83, 85, 87>>,    <<255, 0, 0>> >>

\* Twenty distinct colours, the greys <<i,i,i>> for i in 0..19: their
\* quantized triples are only <<0,0,0>>, <<8,8,8>> and <<16,16,16>>.
Shades20 == [i \in 1..20 |-> <<i - 1, i - 1, i - 1>>]

Run(s) ==
    CASE s = "player"   -> PlayerColours
      [] s = "tiles"    -> TileColours
      [] s = "spectrum" -> Spectrum20
      [] s = "shades"   -> Shades20
      [] OTHER          -> <<>>

\* Colours the driver may pass at will; two pairs share a quantized triple.
FreeColours ==
    { <<0, 0, 0>>, <<7, 7, 7>>, <<255, 0, 0>>, <<250, 3, 5>>,
      <<0, 255, 0>>, <<12, 0, 0>> }

InitPalette ==
    /\ colors = <<>>
    /\ owner = "none"
    /\ script = "none"
    /\ pos = 0
    /\ first = <<>>
    /\ call = NoCall
    /\ slots = <<>>
    /\ frame = NoFrame
    /\ raised = NoError
    /\ sprite = NoSprite
    /\ frames = <<>>
    /\ files = <<>>
    /\ out = <<>>
    /\ prog = "none"
    /\ pc = "none"
    /\ shapes = <<>>

\* RetroColorPalette(name)
RetroColorPalette_init(s) ==
    /\ owner = "none"
    /\ owner' = "palette"
    /\ colors' = <<>>
    /\ script' = s
    /\ call' = [op |-> "RetroColorPalette.__init__", arg |-> <<>>, ret |-> -1]
    /\ UNCHANGED <<pos, first, slots, frame, raised, spriteVars, progVars>>

\* LegendarySprite(width, height, name)
LegendarySprite_init(s) ==
    /\ owner = "none"
    /\ owner' = "sprite"
    /\ colors' = LegendarySprite_palette.colors
    /\ first' = (TransparentBlack :> LegendarySprite_palette.ret)
    /\ script' = s
    /\ call' = [op |-> "LegendarySprite.__init__", arg |-> <<>>, ret |-> -1]
    /\ UNCHANGED <<pos, slots, frame, raised, spriteVars, progVars>>

\* One call palette.add_color(c[1], c[2], c[3]).
CallAddColor(c) ==
    LET r == add_color(colors, c)
    IN  /\ colors' = r.colors
        /\ call' = [op |-> "add_color", arg |-> c, ret |-> r.ret]
        /\ first' = IF c \in DOMAIN first THEN first ELSE first @@ (c :> r.ret)

\* The next call of the run: `skin_base = sprite.palette.add_color(...)`.
ReplayAdd ==
    /\ pos < Len(Run(script))
    /\ CallAddColor(Run(script)[pos + 1])
    /\ slots' = Append(slots, add_color(colors, Run(script)[pos + 1]).ret)
    /\ pos' = pos + 1

RunAdd ==
    /\ owner # "none"
    /\ ReplayAdd
    /\ UNCHANGED <<owner, script, frame, raised, spriteVars, progVars>>

FreeAdd(c) ==
    /\ owner # "none"
    /\ pos = 0 \/ pos = Len(Run(script))
    /\ CallAddColor(c)
    /\ UNCHANGED <<owner, script, pos, slots, frame, raised, spriteVars, progVars>>

NextPalette ==
    \/ \E s \in {"spectrum", "shades"} : RetroColorPalette_init(s)
    \/ \E s \in {"player", "tiles"} : LegendarySprite_init(s)
    \/ RunAdd
    \/ \E c \in FreeColours : FreeAdd(c)

SpecPalette == InitPalette /\ [][NextPalette]_vars


(***************************************************************************)
(* Frame buffers: numpy arrays of shape (h, w, 4), indexed [y, x].         *)
(***************************************************************************)

TransparentPixel == <<0, 0, 0, 0>>

\* np.zeros((h, w, 4), dtype=np.uint8)
np_zeros(h, w) ==
    [h |-> h, w |-> w,
     px |-> [q \in (0..(h - 1)) \X (0..(w - 1)) |-> TransparentPixel]]

\* numpy's reading of an index i on an axis of length n: a negative index
\* counts from the end, anything outside -n..n-1 is an IndexError (-1 here).
NumpyIndex(i, n) ==
    IF 0 <= i /\ i < n THEN i
    ELSE IF -n <= i /\ i < 0 THEN i + n
    ELSE -1

\* frame[y, x] = [r, g, b, a]: the frame after the store and what it raised.
numpy_setitem(f, y, x, v) ==
    LET yy == NumpyIndex(y, f.h)
        xx == NumpyIndex(x, f.w)
    IN  IF yy = -1 \/ xx = -1
        THEN [frame |-> f, raised |-> "IndexError"]
        ELSE [frame |-> [f EXCEPT !.px[<<yy, xx>>] = v], raised |-> "none"]

\* The test without its lower bounds: `x < frame.shape[1] and y < frame.shape[0]`.
InFrame_no_lower_bound(f, x, y) == x < f.w /\ y < f.h

\* `0 <= x < frame.shape[1] and 0 <= y < frame.shape[0]`
InFrame(f, x, y) == 0 <= x /\ x < f.w /\ 0 <= y /\ y < f.h

\* set_pixel_safe(frame, palette, x, y, r, g, b, a) with v = <<r, g, b, a>>.
set_pixel_safe(f, x, y, v) ==
    IF InFrame(f, x, y)
    THEN numpy_setitem(f, y, x, v)
    ELSE [frame |-> f, raised |-> "none"]

\* A colour as a pixel with its alpha left at 0.
Opaque_alpha_unset(c) == <<c[1], c[2], c[3], 0>>

\* A colour as an opaque pixel: the default a = 255.
Opaque(c) == <<c[1], c[2], c[3], 255>>

(***************************************************************************)
(* The pixel driver: a frame buffer of any shape up to PixelMaxH x         *)
(* PixelMaxW is made, then set_pixel_safe is called with coordinates in    *)
(* and around it.                                                          *)
(***************************************************************************)

PixelMaxW == 2
PixelMaxH == 2

\* The colour the pixel driver writes (palette entry 1 of the player).
PixelColours == { <<248, 216, 176>> }

InitPixel ==
    /\ colors = <<>>
    /\ owner = "none"
    /\ script = "none"
    /\ pos = 0
    /\ first = <<>>
    /\ call = NoCall
    /\ slots = <<>>
    /\ sprite = NoSprite
    /\ frames = <<>>
    /\ files = <<>>
    /\ out = <<>>
    /\ prog = "none"
    /\ pc = "none"
    /\ shapes = <<>>
    /\ \E h \in 1..PixelMaxH : \E w \in 1..PixelMaxW : frame = np_zeros(h, w)
    /\ raised = NoError

CallSetPixelSafe(x, y, c) ==
    LET r == set_pixel_safe(frame, x, y, Opaque(c))
    IN  /\ frame' = r.frame
        /\ raised' = [exc |-> r.raised, at |-> "set_pixel_safe"]
        /\ call' = [op |-> "set_pixel_safe", arg |-> <<x, y, Opaque(c)>>,
                    ret |-> -1]
        /\ UNCHANGED <<paletteVars, spriteVars, progVars>>

NextPixel ==
    \E x \in (-frame.w - 1)..frame.w : \E y \in (-frame.h - 1)..frame.h :
        \E c \in PixelColours : CallSetPixelSafe(x, y, c)

SpecPixel == InitPixel /\ [][NextPixel]_vars

(***************************************************************************)
(* The rasterizer of LegendarySpriteGenerator.  A drawing routine makes a  *)
(* sequence of set_pixel_safe calls <<x, y, pixel>>, applied in order.     *)
(***************************************************************************)

Max(a, b) == IF a >= b THEN a ELSE b
Min(a, b) == IF a <= b THEN a ELSE b

\* palette.colors[color_idx], as the opaque pixel set_pixel_safe writes.
PalettePixel(cols, color_idx) == Opaque(cols[color_idx + 1])

\* The calls set_pixel_safe(frame, palette, x, y, ...) of writes[lo..hi], in
\* order.  The range is cut in four parts, and each part is evaluated (the
\* test on .h is always true) before the next starts, to keep the
\* evaluation shallow.
RECURSIVE PaintRange(_, _, _, _)
PaintRange(f, writes, lo, hi) ==
    IF lo > hi THEN f
    ELSE IF lo = hi
    THEN set_pixel_safe(f, writes[lo][1], writes[lo][2], writes[lo][3]).frame
    ELSE LET part == (hi - lo + 4) \div 4
             a == PaintRange(f, writes, lo, Min(hi, lo + part - 1))
             b == PaintRange(a, writes, lo + part, Min(hi, lo + 2 * part - 1))
             c == PaintRange(b, writes, lo + 2 * part,
                             Min(hi, lo + 3 * part - 1))
         IN  IF a.h = b.h /\ b.h = c.h
             THEN PaintRange(c, writes, lo + 3 * part, hi)
             ELSE f

\* The writes writes[k..] on frame f.  A frame without rows, or no write
\* left, leaves the frame as it is; the test also has the frame and the
\* writes evaluated before the first write is made.
Paint(f, writes, k) ==
    IF f.h = 0 \/ Len(writes) < k THEN f
    ELSE PaintRange(f, writes, k, Len(writes))

\* `for y in range(y0, y1): for x in range(x0, x1)`: the <<x, y>> visited.
RowMajor(x0, x1, y0, y1) ==
    LET nx == Max(0, x1 - x0)
        ny == Max(0, y1 - y0)
    IN  [k \in 1..(nx * ny) |-> <<x0 + ((k - 1) % nx), y0 + ((k - 1) \div nx)>>]

\* light_factor = (-dx - dy) / (radius * 2), compared with 0.3 and -0.3:
\* highlight above 0.3, shadow below -0.3, base otherwise (radius > 0).
CircleShade(dx, dy, radius, base_color, shadow_color, highlight_color) ==
    IF 10 * (-dx - dy) > 3 * (radius * 2) THEN highlight_color
    ELSE IF 10 * (-dx - dy) < -3 * (radius * 2) THEN shadow_color
    ELSE base_color

draw_circle_with_shading(f, cols, cx, cy, radius, base_color, shadow_color, highlight_color) ==
    LET cells == RowMajor(Max(0, cx - radius), Min(f.w, cx + radius + 1),
                          Max(0, cy - radius), Min(f.h, cy + radius + 1))
        InCircle(q) ==
            (q[1] - cx) * (q[1] - cx) + (q[2] - cy) * (q[2] - cy)
                <= radius * radius
        hit == SelectSeq(cells, InCircle)
        writes == [k \in 1..Len(hit) |->
                     <<hit[k][1], hit[k][2],
                       PalettePixel(cols,
                           CircleShade(hit[k][1] - cx, hit[k][2] - cy, radius,
                               base_color, shadow_color, highlight_color))>>]
    IN  Paint(f, writes, 1)

\* The edge test with the bottom/right test made first.
RectShade_shadow_first(px, py, x, y, width, height, base_color, shadow_color, highlight_color) ==
    IF px = x + width - 1 \/ py = y + height - 1 THEN shadow_color
    ELSE IF px = x \/ py = y THEN highlight_color
    ELSE base_color

\* The edge test of draw_rect_with_shading for pixel (px, py).
RectShade(px, py, x, y, width, height, base_color, shadow_color, highlight_color) ==
    IF px = x \/ py = y THEN highlight_color
    ELSE IF px = x + width - 1 \/ py = y + height - 1 THEN shadow_color
    ELSE base_color

draw_rect_with_shading(f, cols, x, y, width, height, base_color, shadow_color, highlight_color) ==
    LET cells == RowMajor(x, Min(f.w, x + width), y, Min(f.h, y + height))
        writes == [k \in 1..Len(cells) |->
                     <<cells[k][1], cells[k][2],
                       PalettePixel(cols,
                           RectShade(cells[k][1], cells[k][2], x, y, width,
                               height, base_color, shadow_color,
                               highlight_color))>>]
    IN  Paint(f, writes, 1)

\* hair_pixels of draw_hair_front
FrontHairPixels(cx, cy) ==
    << <<cx - 2, cy>>, <<cx - 1, cy>>, <<cx, cy>>, <<cx + 1, cy>>, <<cx + 2, cy>>,
       <<cx - 2, cy + 1>>, <<cx + 2, cy + 1>>,
       <<cx - 1, cy + 2>>, <<cx + 1, cy + 2>> >>

\* No side hidden.
HairHidden_never(px, cx, direction) == FALSE

\* The `continue` tests of draw_hair_front: the side hidden by the direction.
HairHidden(px, cx, direction) ==
    \/ direction = "west" /\ px > cx
    \/ direction = "east" /\ px < cx

\* The shading of draw_hair_front by the side of the centre column.
HairShade(px, cx, direction, base_color, shadow_color, highlight_color) ==
    IF px < cx
    THEN (IF direction # "east" THEN shadow_color ELSE base_color)
    ELSE IF px > cx
    THEN (IF direction # "west" THEN highlight_color ELSE base_color)
    ELSE base_color

draw_hair_front(f, cols, cx, cy, direction, base_color, shadow_color, highlight_color) ==
    LET Shown(q) == ~HairHidden(q[1], cx, direction)
        shown == SelectSeq(FrontHairPixels(cx, cy), Shown)
        writes == [k \in 1..Len(shown) |->
                     <<shown[k][1], shown[k][2],
                       PalettePixel(cols,
                           HairShade(shown[k][1], cx, direction, base_color,
                               shadow_color, highlight_color))>>]
    IN  Paint(f, writes, 1)

\* back_hair_pixels of draw_hair_back
BackHairPixels(cx, cy) ==
    << <<cx - 2, cy>>, <<cx - 1, cy>>, <<cx, cy>>, <<cx + 1, cy>>, <<cx + 2, cy>>,
       <<cx - 2, cy + 1>>, <<cx - 1, cy + 1>>, <<cx, cy + 1>>,
       <<cx + 1, cy + 1>>, <<cx + 2, cy + 1>> >>

draw_hair_back(f, cols, cx, cy, base_color, shadow_color, highlight_color) ==
    LET cells == BackHairPixels(cx, cy)
        writes == [k \in 1..Len(cells) |->
                     <<cells[k][1], cells[k][2], PalettePixel(cols, base_color)>>]
    IN  Paint(f, writes, 1)

\* Both eyes whatever the direction.
EyePixels_both(direction, head_y) == << <<7, head_y + 2>>, <<9, head_y + 2>> >>

\* `if direction != 'north': self.draw_hair_front(...) else:
\* self.draw_hair_back(...)`
draw_hair(f, cols, cx, cy, direction, base_color, shadow_color, highlight_color) ==
    IF direction # "north"
    THEN draw_hair_front(f, cols, cx, cy, direction,
             base_color, shadow_color, highlight_color)
    ELSE draw_hair_back(f, cols, cx, cy,
             base_color, shadow_color, highlight_color)

\* The eye pixels by direction, written as (0, 0, 0) with the default alpha.
EyePixels(direction, head_y) ==
    CASE direction = "south" -> << <<7, head_y + 2>>, <<9, head_y + 2>> >>
      [] direction = "west"  -> << <<7, head_y + 2>> >>
      [] direction = "east"  -> << <<9, head_y + 2>> >>
      [] OTHER               -> <<>>

draw_eyes(f, direction, head_y) ==
    LET cells == EyePixels(direction, head_y)
    IN  Paint(f, [k \in 1..Len(cells) |->
                    <<cells[k][1], cells[k][2], Opaque(<<0, 0, 0>>)>>], 1)

\* `legs_y = 11`
LegsY == 11

\* Both legs moved the same way.
RightLegY_same_way(walk_offset) == LegsY + walk_offset

\* `left_leg_y = legs_y + walk_offset`, `right_leg_y = legs_y - walk_offset`
LeftLegY(walk_offset) == LegsY + walk_offset
RightLegY(walk_offset) == LegsY - walk_offset

\* The four shoe pixels, in the order they are written.
ShoePixels(left_leg_y, right_leg_y) ==
    << <<5, left_leg_y + 3>>, <<6, left_leg_y + 3>>,
       <<9, right_leg_y + 3>>, <<10, right_leg_y + 3>> >>

\* draw_legendary_character(frame, palette, direction, walk_offset, *colors):
\* c holds the 14 palette indexes skin_base .. shirt_color.
draw_legendary_character(f, cols, direction, walk_offset, c) ==
    LET skin_base == c[1]     skin_shadow == c[2]     skin_highlight == c[3]
        hair_base == c[4]     hair_shadow == c[5]     hair_highlight == c[6]
        jacket_base == c[7]   jacket_shadow == c[8]   jacket_highlight == c[9]
        pants_base == c[10]   pants_shadow == c[11]   pants_highlight == c[12]
        shoes_base == c[13]   shirt_color == c[14]
        head_y == 2
        body_y == 6
        left_leg_y == LeftLegY(walk_offset)
        right_leg_y == RightLegY(walk_offset)
        head == draw_circle_with_shading(f, cols, 8, head_y + 2, 3,
                    skin_base, skin_shadow, skin_highlight)
        hair == draw_hair(head, cols, 8, head_y, direction,
                    hair_base, hair_shadow, hair_highlight)
        eyes == draw_eyes(hair, direction, head_y)
        body == draw_rect_with_shading(eyes, cols, 6, body_y, 4, 5,
                    jacket_base, jacket_shadow, jacket_highlight)
        collar == draw_rect_with_shading(body, cols, 7, body_y, 2, 1,
                    shirt_color, jacket_shadow, jacket_highlight)
        right_arm == IF direction # "west"
                     THEN draw_rect_with_shading(collar, cols, 10, body_y + 1,
                              1, 3, jacket_base, jacket_shadow, jacket_highlight)
                     ELSE collar
        left_arm == IF direction # "east"
                    THEN draw_rect_with_shading(right_arm, cols, 5, body_y + 1,
                             1, 3, jacket_base, jacket_shadow, jacket_highlight)
                    ELSE right_arm
        left_leg == draw_rect_with_shading(left_arm, cols, 6, left_leg_y, 1, 4,
                        pants_base, pants_shadow, pants_highlight)
        right_leg == draw_rect_with_shading(left_leg, cols, 9, right_leg_y, 1, 4,
                         pants_base, pants_shadow, pants_highlight)
        shoes == ShoePixels(left_leg_y, right_leg_y)
        \* the frame after each part, in the order the parts are drawn
        parts == <<head, hair, eyes, body, collar, right_arm, left_arm,
                   left_leg, right_leg>>
    IN  Paint(parts[Len(parts)],
              [k \in 1..Len(shoes) |->
                  <<shoes[k][1], shoes[k][2], PalettePixel(cols, shoes_base)>>], 1)

\* `directions = ['south', 'west', 'east', 'north']`
Directions == <<"south", "west", "east", "north">>

\* `walk_offset = 0; if frame_idx == 1: -1; elif frame_idx == 3: 1`
WalkOffset(frame_idx) ==
    IF frame_idx = 1 THEN -1 ELSE IF frame_idx = 3 THEN 1 ELSE 0

\* The size of every frame the generator draws: np.zeros((16, 16, 4)).
FrameSize == 16

\* The body of the frame loop of create_enhanced_player_sprite for
\* (direction_idx, frame_idx): the frame that is added to the sprite.
PlayerFrame(cols, c, direction_idx, frame_idx) ==
    draw_legendary_character(np_zeros(FrameSize, FrameSize), cols,
        Directions[direction_idx + 1], WalkOffset(frame_idx), c)

(***************************************************************************)
(* The tiles of create_urban_tileset: every pixel of the 16 x 16 tile gets *)
(* a colour chosen from its coordinates.                                   *)
(***************************************************************************)

\* `for y in range(16): for x in range(16)` with colour picked[<<x, y>>].
TileCells == (0..15) \X (0..15)

FillTile(f, picked) ==
    LET cells == RowMajor(0, 16, 0, 16)
    IN  Paint(f, [k \in 1..Len(cells) |->
                    <<cells[k][1], cells[k][2], Opaque(picked[cells[k]])>>], 1)

draw_concrete_tile(f, cols, base, dark, light) ==
    LET Pick(x, y) ==
            IF (x + y) % 4 = 0 THEN cols[light + 1]
            ELSE IF (x + y) % 3 = 0 THEN cols[dark + 1]
            ELSE cols[base + 1]
    IN  FillTile(f, [q \in TileCells |-> Pick(q[1], q[2])])

draw_brick_wall(f, cols, base, dark, light) ==
    LET Pick(x, y) ==
            IF \/ y % 4 = 3
               \/ ((y \div 4) % 2 = 0 /\ x % 8 = 7)
               \/ ((y \div 4) % 2 = 1 /\ x % 8 = 3)
            THEN cols[dark + 1]
            ELSE IF \/ (x % 8 = 0 /\ (y \div 4) % 2 = 0)
                    \/ (x % 8 = 4 /\ (y \div 4) % 2 = 1)
            THEN cols[light + 1]
            ELSE cols[base + 1]
    IN  FillTile(f, [q \in TileCells |-> Pick(q[1], q[2])])

draw_asphalt_road(f, cols, base, dark, line_color) ==
    LET Pick(x, y) ==
            IF y = 7 \/ y = 8
            THEN (IF x % 4 < 2 THEN cols[line_color + 1] ELSE cols[base + 1])
            ELSE (IF (x + y * 3) % 7 = 0 THEN cols[dark + 1] ELSE cols[base + 1])
    IN  FillTile(f, [q \in TileCells |-> Pick(q[1], q[2])])

draw_grass_patch(f, cols, base, dark, light) ==
    LET Pick(x, y) ==
            LET rand_val == (x * 7 + y * 11) % 13
            IN  IF rand_val < 2 THEN cols[light + 1]
                ELSE IF rand_val < 5 THEN cols[dark + 1]
                ELSE cols[base + 1]
    IN  FillTile(f, [q \in TileCells |-> Pick(q[1], q[2])])

\* The body of the tile loop of create_urban_tileset for tile_types[k]
\* (k is 0-based); t holds the 13 palette indexes concrete_base .. grass_light.
TileFrame(cols, t, k) ==
    LET concrete_base == t[1]   concrete_dark == t[2]   concrete_light == t[3]
        brick_base == t[4]      brick_dark == t[5]      brick_light == t[6]
        asphalt_base == t[7]    asphalt_dark == t[8]
        yellow_line == t[9]     white_line == t[10]
        grass_base == t[11]     grass_dark == t[12]     grass_light == t[13]
        blank == np_zeros(FrameSize, FrameSize)
    IN  CASE k = 0 -> draw_concrete_tile(blank, cols, concrete_base,
                          concrete_dark, concrete_light)
          [] k = 1 -> draw_brick_wall(blank, cols, brick_base, brick_dark,
                          brick_light)
          [] k = 2 -> draw_asphalt_road(blank, cols, asphalt_base,
                          asphalt_dark, yellow_line)
          [] OTHER -> draw_grass_patch(blank, cols, grass_base, grass_dark,
                          grass_light)

(***************************************************************************)
(* PIL images: [w, h, px] with px[<<x, y>>] a pixel, and the exporter      *)
(* LegendarySprite.save_to_files.                                          *)
(***************************************************************************)

\* Image.new('RGBA', (w, h), fill)
Image_new(w, h, fill) ==
    [w |-> w, h |-> h, px |-> [q \in (0..(w - 1)) \X (0..(h - 1)) |-> fill]]

\* Image.fromarray(frame, 'RGBA'): row y, column x of the array is pixel (x, y).
Image_fromarray(f) ==
    [w |-> f.w, h |-> f.h,
     px |-> [q \in (0..(f.w - 1)) \X (0..(f.h - 1)) |-> f.px[<<q[2], q[1]>>]]]

\* im.paste(src, (x0, y0)): src's pixels replace im's, clipped to im.
Image_paste(im, src, x0, y0) ==
    [im EXCEPT !.px =
        [q \in DOMAIN im.px |->
            IF /\ x0 <= q[1] /\ q[1] < x0 + src.w
               /\ y0 <= q[2] /\ q[2] < y0 + src.h
            THEN src.px[<<q[1] - x0, q[2] - y0>>]
            ELSE im.px[q]]]

\* The frame's own index taken as its x position.
PasteX_unscaled(i, width) == i

\* `i * self.width`: where frame i (0-based) is pasted.
PasteX(i, width) == i * width

\* `for i, frame in enumerate(self.frames): sheet.paste(...)` for the frames
\* fs[lo..hi] (1-based, so frame k has i = k - 1).  The range is halved and
\* the first half is evaluated (the test on .w is always true) before the
\* second starts, to keep the evaluation shallow.
RECURSIVE PasteFrames(_, _, _, _, _)
PasteFrames(sheet, fs, lo, hi, width) ==
    IF lo > hi THEN sheet
    ELSE IF lo = hi
    THEN Image_paste(sheet, Image_fromarray(fs[lo]), PasteX(lo - 1, width), 0)
    ELSE LET mid == (lo + hi) \div 2
             done == PasteFrames(sheet, fs, lo, mid, width)
         IN  IF done.w = sheet.w
             THEN PasteFrames(done, fs, mid + 1, hi, width)
             ELSE sheet

\* The sprite sheet save_to_files builds.
SpriteSheet(spr, fs) ==
    PasteFrames(Image_new(spr.width * Len(fs), spr.height, TransparentPixel),
                fs, 1, Len(fs), spr.width)

\* The record dumped to <name>_palette.json.
palette_data(spr, fs, cols) ==
    [name |-> spr.name,
     colors |-> [i \in 1..Len(cols) |->
                    [r |-> cols[i][1], g |-> cols[i][2], b |-> cols[i][3]]],
     width |-> spr.width, height |-> spr.height, frames |-> Len(fs)]

\* A file written (or overwritten) with the given content.
WriteFile(fs, name, content) ==
    [n \in DOMAIN fs \cup {name} |-> IF n = name THEN content ELSE fs[n]]

\* os.path.join(output_dir, f"{self.name}.png") and f"{self.name}_palette.json"
PngName(spr, output_dir) == <<output_dir, "/", spr.name, ".png">>
JsonName(spr, output_dir) == <<output_dir, "/", spr.name, "_palette.json">>

\* save_to_files(output_dir): the files and the printed lines after it.
save_to_files(spr, fs, cols, fsys, printed, output_dir) ==
    LET made == WriteFile(fsys, <<output_dir, "/">>, "directory")
    IN  IF Len(fs) > 0
        THEN [files |-> WriteFile(
                            WriteFile(made, PngName(spr, output_dir),
                                      SpriteSheet(spr, fs)),
                            JsonName(spr, output_dir),
                            palette_data(spr, fs, cols)),
              out   |-> Append(printed, <<"Saved", spr.name, Len(fs)>>)]
        ELSE [files |-> made, out |-> printed]

\* LegendarySprite(width, height, name): the fields besides the palette.
LegendarySprite_fields(width, height, name) ==
    [name |-> name, width |-> width, height |-> height]

(***************************************************************************)
(* The sheet driver: a sprite of any size up to SheetMaxW x SheetMaxH is   *)
(* made, up to MaxFrames frames of its size are drawn and added (blank, or *)
(* with one pixel set), and the sprite is saved.                           *)
(***************************************************************************)

SheetMaxW == 2
SheetMaxH == 2
MaxFrames == 3

\* The frame buffers the sheet driver adds to a sprite of size w x h.
TestFrames(h, w) ==
    {np_zeros(h, w)} \cup
    {set_pixel_safe(np_zeros(h, w), x, y, Opaque(c)).frame :
        x \in 0..(w - 1), y \in 0..(h - 1), c \in PixelColours}

InitSheet ==
    /\ colors = LegendarySprite_palette.colors
    /\ owner = "sprite"
    /\ script = "none"
    /\ pos = 0
    /\ first = (TransparentBlack :> LegendarySprite_palette.ret)
    /\ call = NoCall
    /\ slots = <<>>
    /\ frame = NoFrame
    /\ raised = NoError
    /\ \E w \in 1..SheetMaxW : \E h \in 1..SheetMaxH :
          sprite = LegendarySprite_fields(w, h, "sprite")
    /\ frames = <<>>
    /\ files = <<>>
    /\ out = <<>>
    /\ prog = "none"
    /\ pc = "none"
    /\ shapes = <<>>

\* sprite.add_frame(image_array)
add_frame(fs, image_array) == Append(fs, image_array)

\* `frame = np.zeros(...)`, the drawing, `sprite.add_frame(frame)`.
DrawAndAddFrame(f) ==
    /\ <<"out", "/">> \notin DOMAIN files
    /\ Len(frames) < MaxFrames
    /\ frame' = f
    /\ frames' = add_frame(frames, f)
    /\ call' = [op |-> "add_frame", arg |-> <<>>, ret |-> -1]
    /\ UNCHANGED <<paletteVars, raised, sprite, files, out, progVars>>

\* sprite.save_to_files(output_dir)
CallSaveToFiles(output_dir) ==
    LET r == save_to_files(sprite, frames, colors, files, out, output_dir)
    IN  /\ files' = r.files
        /\ out' = r.out
        /\ call' = [op |-> "save_to_files", arg |-> <<output_dir>>, ret |-> -1]

SaveSheet ==
    /\ <<"out", "/">> \notin DOMAIN files
    /\ CallSaveToFiles("out")
    /\ UNCHANGED <<paletteVars, frame, raised, sprite, frames, progVars>>

NextSheet ==
    \/ \E f \in TestFrames(sprite.height, sprite.width) : DrawAndAddFrame(f)
    \/ SaveSheet

SpecSheet == InitSheet /\ [][NextSheet]_vars

(***************************************************************************)
(* The two PIL scripts, create-enhanced-sprite.py and                      *)
(* create-sample-sprite.py: each draws 16 characters on one 64 x 64 image  *)
(* with ImageDraw calls.  A call is kept as it was made: its operation,    *)
(* its coordinates, its fill and its outline.                              *)
(***************************************************************************)

skin_tone == <<255, 220, 177, 255>>
hair_dark == <<101, 67, 33, 255>>
jacket_blue == <<72, 118, 170, 255>>
pants_dark == <<45, 45, 60, 255>>
shoes_black == <<30, 30, 30, 255>>
shirt_white == <<240, 240, 240, 255>>
outline_black == <<20, 20, 20, 255>>

\* No outline given to the ImageDraw call.
NoOutline == <<>>

\* draw.ellipse / draw.arc / draw.rectangle / draw.point
draw_ellipse(xy, fill, outline) ==
    [op |-> "ellipse", at |-> xy, fill |-> fill, outline |-> outline]
draw_arc(xy, start, end, fill) ==
    [op |-> "arc", at |-> xy \o <<start, end>>, fill |-> fill,
     outline |-> NoOutline]
draw_rectangle(xy, fill, outline) ==
    [op |-> "rectangle", at |-> xy, fill |-> fill, outline |-> outline]
draw_point(xy, fill) ==
    [op |-> "point", at |-> xy, fill |-> fill, outline |-> NoOutline]

\* `frames`: the origin of frame i (0-based) in the 4 x 4 grid.
FrameOrigin(i) == <<16 * (i % 4), 16 * (i \div 4)>>

\* create-enhanced-sprite.py: `leg_offset = 1 if frame_in_direction == 1
\* else (-1 if frame_in_direction == 3 else 0)`
enhanced_leg_offset(frame_in_direction) ==
    IF frame_in_direction = 1 THEN 1
    ELSE IF frame_in_direction = 3 THEN -1 ELSE 0

\* create-enhanced-sprite.py: `is_walking = frame_in_direction in [1, 3]`
enhanced_is_walking(frame_in_direction) == frame_in_direction \in {1, 3}

\* create-enhanced-sprite.py: draw_character(x, y, direction, is_walking,
\* leg_offset), as the sequence of ImageDraw calls it makes.
enhanced_draw_character(x, y, direction, is_walking, leg_offset) ==
    LET head_y == y + 2
        body_y == y + 6
        legs_y == y + 11
        left_leg_y == legs_y + (IF is_walking THEN leg_offset ELSE 0)
        right_leg_y == legs_y + (IF is_walking THEN -leg_offset ELSE 0)
    IN  << draw_ellipse(<<x + 6, head_y, x + 10, head_y + 4>>,
                        skin_tone, outline_black),
           draw_arc(<<x + 5, head_y - 1, x + 11, head_y + 3>>, 0, 180,
                    hair_dark),
           draw_rectangle(<<x + 5, head_y, x + 11, head_y + 2>>,
                          hair_dark, NoOutline) >>
        \o (CASE direction = "south" ->
                   << draw_point(<<x + 7, head_y + 2>>, outline_black),
                      draw_point(<<x + 9, head_y + 2>>, outline_black) >>
              [] direction = "west" ->
                   << draw_point(<<x + 7, head_y + 2>>, outline_black) >>
              [] direction = "east" ->
                   << draw_point(<<x + 9, head_y + 2>>, outline_black) >>
              [] OTHER -> <<>>)
        \o << draw_rectangle(<<x + 5, body_y, x + 11, body_y + 5>>,
                             jacket_blue, outline_black),
              draw_rectangle(<<x + 6, body_y + 1, x + 10, body_y + 2>>,
                             shirt_white, NoOutline) >>
        \o (IF direction # "west"
            THEN << draw_rectangle(<<x + 11, body_y + 1, x + 12, body_y + 4>>,
                                   jacket_blue, outline_black) >>
            ELSE <<>>)
        \o (IF direction # "east"
            THEN << draw_rectangle(<<x + 4, body_y + 1, x + 5, body_y + 4>>,
                                   jacket_blue, outline_black) >>
            ELSE <<>>)
        \o << draw_rectangle(<<x + 6, left_leg_y, x + 7, left_leg_y + 4>>,
                             pants_dark, outline_black),
              draw_rectangle(<<x + 9, right_leg_y, x + 10, right_leg_y + 4>>,
                             pants_dark, outline_black),
              draw_rectangle(<<x + 5, left_leg_y + 3, x + 8, left_leg_y + 4>>,
                             shoes_black, NoOutline),
              draw_rectangle(<<x + 8, right_leg_y + 3, x + 11, right_leg_y + 4>>,
                             shoes_black, NoOutline) >>

\* create-enhanced-sprite.py: the body of `for i, (x, y) in enumerate(frames)`.
enhanced_frame(i) ==
    enhanced_draw_character(FrameOrigin(i)[1], FrameOrigin(i)[2],
        Directions[(i \div 4) + 1], enhanced_is_walking(i % 4),
        enhanced_leg_offset(i % 4))

\* The offsets of frames 1 and 3 exchanged.
sample_walking_offset_exchanged(i) ==
    IF i % 4 \in {1, 3} THEN (IF i % 4 = 1 THEN -1 ELSE 1) ELSE 0

\* create-sample-sprite.py: `walking_offset = 0; if i % 4 in [1, 3]:
\* walking_offset = 1 if i % 4 == 1 else -1`
sample_walking_offset(i) ==
    IF i % 4 \in {1, 3} THEN (IF i % 4 = 1 THEN 1 ELSE -1) ELSE 0

\* create-sample-sprite.py: draw_character(x, y, direction, frame_type,
\* walking_offset), as the sequence of ImageDraw calls it makes (frame_type
\* is not read).
sample_draw_character(x, y, direction, frame_type, walking_offset) ==
    LET head_y == y + 2
        body_y == y + 6
        legs_y == IF walking_offset # 0 THEN y + 12 + walking_offset ELSE y + 12
    IN  << draw_ellipse(<<x + 5, head_y, x + 11, head_y + 6>>,
                        skin_tone, outline_black),
           draw_ellipse(<<x + 4, head_y - 1, x + 12, head_y + 4>>,
                        hair_dark, outline_black) >>
        \o (CASE direction = "south" ->
                   << draw_point(<<x + 6, head_y + 2>>, outline_black),
                      draw_point(<<x + 9, head_y + 2>>, outline_black) >>
              [] direction = "west" ->
                   << draw_point(<<x + 6, head_y + 2>>, outline_black) >>
              [] direction = "east" ->
                   << draw_point(<<x + 9, head_y + 2>>, outline_black) >>
              [] OTHER -> <<>>)
        \o << draw_rectangle(<<x + 4, body_y, x + 12, body_y + 6>>,
                             jacket_blue, outline_black),
              draw_rectangle(<<x + 5, body_y + 1, x + 11, body_y + 3>>,
                             shirt_white, NoOutline) >>
        \o (CASE direction = "west" ->
                   << draw_rectangle(<<x + 2, body_y + 1, x + 4, body_y + 5>>,
                                     jacket_blue, outline_black) >>
              [] direction = "east" ->
                   << draw_rectangle(<<x + 12, body_y + 1, x + 14, body_y + 5>>,
                                     jacket_blue, outline_black) >>
              [] OTHER ->
                   << draw_rectangle(<<x + 3, body_y + 1, x + 5, body_y + 5>>,
                                     jacket_blue, outline_black),
                      draw_rectangle(<<x + 11, body_y + 1, x + 13, body_y + 5>>,
                                     jacket_blue, outline_black) >>)
        \o << draw_rectangle(<<x + 5, legs_y, x + 7, legs_y + 4>>,
                             pants_dark, outline_black),
              draw_rectangle(<<x + 9, legs_y, x + 11, legs_y + 4>>,
                             pants_dark, outline_black),
              draw_rectangle(<<x + 4, legs_y + 3, x + 8, legs_y + 4>>,
                             shoes_black, NoOutline),
              draw_rectangle(<<x + 8, legs_y + 3, x + 12, legs_y + 4>>,
                             shoes_black, NoOutline) >>

\* create-sample-sprite.py: the body of `for i, (x, y) in enumerate(frames)`.
sample_frame(i) ==
    sample_draw_character(FrameOrigin(i)[1], FrameOrigin(i)[2],
        Directions[(i \div 4) + 1],
        IF i % 4 \in {1, 3} THEN "walk" ELSE "idle",
        sample_walking_offset(i))

(***************************************************************************)
(* The run of a script.  pc is the statement the script is at; a statement *)
(* either completes or raises an exception, which the script's guard, if   *)
(* it has one around that statement, handles.                              *)
(***************************************************************************)

Scripts == {"legendary", "enhanced", "sample"}

\* The exceptions a statement of the run may raise (both are Exceptions).
Failures == {"MemoryError", "OSError"}

\* `output_dir = "assets/sprites/legendary"`
OutputDir == "assets/sprites/legendary"

\* create-enhanced-sprite.py: `try: ... except Exception as e:` around the
\* call of create_enhanced_sprite().
Guard_enhanced == "except Exception"

\* create-sample-sprite.py: `try: ... except Exception as e:` around the
\* call of create_sample_sprite().
Guard_sample == "except Exception"

\* legendary-sprite-generator.py: `if __name__ == "__main__": main()`, and
\* no try statement in main() or around it.
Guard_legendary == "none"

Guard(p) ==
    CASE p = "enhanced" -> Guard_enhanced
      [] p = "sample"   -> Guard_sample
      [] OTHER          -> Guard_legendary

\* The guard of script p handles the exception err: the script has a guard
\* and the statement that raised lies inside its try block (the imports at
\* the top of the file lie before it).
Caught(p, err) == Guard(p) = "except Exception" /\ err.at # "import"

Init ==
    /\ prog \in Scripts
    /\ pc = "import"
    /\ colors = <<>>
    /\ owner = "none"
    /\ script = "none"
    /\ pos = 0
    /\ first = <<>>
    /\ call = NoCall
    /\ slots = <<>>
    /\ frame = NoFrame
    /\ raised = NoError
    /\ sprite = NoSprite
    /\ frames = <<>>
    /\ files = <<>>
    /\ out = <<>>
    /\ shapes = <<>>

\* The import statements at the top of the script.
Import ==
    /\ pc = "import"
    /\ pc' = "main"
    /\ UNCHANGED <<paletteVars, call, frame, raised, spriteVars, prog, shapes>>

\* main(): the banner, `generator = LegendarySpriteGenerator()`.
main_banner ==
    /\ prog = "legendary" /\ pc = "main"
    /\ out' = Append(out, <<"LEGENDARY 16-BIT SPRITE GENERATOR">>)
    /\ pc' = "create_player"
    /\ UNCHANGED <<paletteVars, call, frame, raised, sprite, frames, files,
                   prog, shapes>>

\* The head of create_enhanced_player_sprite / create_urban_tileset: the
\* print and `sprite = LegendarySprite(16, 16, name)`.
create_sprite ==
    /\ prog = "legendary" /\ pc \in {"create_player", "create_tiles"}
    /\ LET name == IF pc = "create_player" THEN "legendary_player"
                   ELSE "urban_tiles"
       IN  /\ out' = Append(out, <<"Creating", name>>)
           /\ sprite' = LegendarySprite_fields(FrameSize, FrameSize, name)
    /\ script' = IF pc = "create_player" THEN "player" ELSE "tiles"
    /\ owner' = "sprite"
    /\ colors' = LegendarySprite_palette.colors
    /\ first' = (TransparentBlack :> LegendarySprite_palette.ret)
    /\ pos' = 0
    /\ slots' = <<>>
    /\ frames' = <<>>
    /\ call' = [op |-> "LegendarySprite.__init__", arg |-> <<>>, ret |-> -1]
    /\ pc' = "colours"
    /\ UNCHANGED <<frame, raised, files, prog, shapes>>

\* The next `<slot> = sprite.palette.add_color(r, g, b)` of the function.
define_colour ==
    /\ prog = "legendary" /\ pc = "colours"
    /\ ReplayAdd
    /\ pc' = IF pos + 1 = Len(Run(script)) THEN "frames" ELSE "colours"
    /\ UNCHANGED <<owner, script, frame, raised, spriteVars, prog, shapes>>

\* The number of frames the function draws: 4 directions x 4 frames, or the
\* 4 tile types.
FrameCount(s) == IF s = "player" THEN 16 ELSE 4

\* One pass of the frame loop: np.zeros, the drawing, sprite.add_frame.
draw_frame ==
    /\ prog = "legendary" /\ pc = "frames"
    /\ LET k == Len(frames)
           f == IF script = "player"
                THEN PlayerFrame(colors, slots, k \div 4, k % 4)
                ELSE TileFrame(colors, slots, k)
       IN  /\ frame' = f
           /\ frames' = add_frame(frames, f)
    /\ call' = [op |-> "add_frame", arg |-> <<>>, ret |-> -1]
    /\ pc' = IF Len(frames) + 1 = FrameCount(script) THEN "created"
             ELSE "frames"
    /\ UNCHANGED <<paletteVars, raised, sprite, files, out, prog, shapes>>

\* The closing print of the function and its return.
created ==
    /\ prog = "legendary" /\ pc = "created"
    /\ out' = Append(out, <<"Created", sprite.name, Len(frames)>>)
    /\ pc' = "save"
    /\ UNCHANGED <<paletteVars, call, frame, raised, sprite, frames, files,
                   prog, shapes>>

\* main(): `player_sprite.save_to_files(output_dir)` and
\* `urban_tiles.save_to_files(output_dir)`.
save_sprite ==
    /\ prog = "legendary" /\ pc = "save"
    /\ CallSaveToFiles(OutputDir)
    /\ pc' = IF script = "player" THEN "create_tiles" ELSE "complete"
    /\ UNCHANGED <<paletteVars, frame, raised, sprite, frames, prog, shapes>>

\* main(): the closing prints.
main_complete ==
    /\ prog = "legendary" /\ pc = "complete"
    /\ out' = out \o << <<"LEGENDARY SPRITE GENERATION COMPLETE">>,
                        <<"Files saved to", OutputDir>>,
                        <<"ULTIMATE 16-bit graphics">> >>
    /\ pc' = "exit"
    /\ UNCHANGED <<paletteVars, call, frame, raised, sprite, frames, files,
                   prog, shapes>>

\* The head of create_enhanced_sprite / create_sample_sprite: the print (the
\* enhanced script only), Image.new('RGBA', (64, 64), (0, 0, 0, 0)) and
\* ImageDraw.Draw(img).
new_image ==
    /\ prog \in {"enhanced", "sample"} /\ pc = "main"
    /\ out' = IF prog = "enhanced"
              THEN Append(out, <<"Creating enhanced player sprite...">>)
              ELSE out
    /\ shapes' = <<>>
    /\ pc' = "draw"
    /\ UNCHANGED <<paletteVars, call, frame, raised, sprite, frames, files,
                   prog>>

\* One pass of `for i, (x, y) in enumerate(frames)`: draw_character.
draw_character ==
    /\ prog \in {"enhanced", "sample"} /\ pc = "draw"
    /\ LET i == Len(shapes)
       IN  shapes' = Append(shapes, IF prog = "enhanced" THEN enhanced_frame(i)
                                    ELSE sample_frame(i))
    /\ pc' = IF Len(shapes) + 1 = 16 THEN "makedirs" ELSE "draw"
    /\ UNCHANGED <<paletteVars, call, frame, raised, spriteVars, prog>>

\* os.makedirs('assets/sprites', exist_ok=True)
makedirs ==
    /\ prog \in {"enhanced", "sample"} /\ pc = "makedirs"
    /\ files' = WriteFile(files, <<"assets/sprites", "/">>, "directory")
    /\ pc' = "save"
    /\ UNCHANGED <<paletteVars, call, frame, raised, sprite, frames, out,
                   prog, shapes>>

\* The 64 x 64 image as drawn so far, and img.resize((w, h), Image.NEAREST).
Drawn(w, h) == [w |-> w, h |-> h, of |-> <<64, 64>>, shapes |-> shapes]

\* img.save('assets/sprites/player.png') and the print after it.
save_image ==
    /\ prog \in {"enhanced", "sample"} /\ pc = "save"
    /\ files' = WriteFile(files, <<"assets/sprites", "/", "player", ".png">>,
                          Drawn(64, 64))
    /\ out' = Append(out, <<"Created", "assets/sprites/player.png">>)
    /\ pc' = "save_large"
    /\ UNCHANGED <<paletteVars, call, frame, raised, sprite, frames, prog,
                   shapes>>

\* `large_img = img.resize((256, 256), Image.NEAREST)`,
\* large_img.save('assets/sprites/player-large.png') and the print after it.
save_large ==
    /\ prog \in {"enhanced", "sample"} /\ pc = "save_large"
    /\ files' = WriteFile(files,
                          <<"assets/sprites", "/", "player-large", ".png">>,
                          Drawn(256, 256))
    /\ out' = Append(out, <<"Created", "assets/sprites/player-large.png">>)
    /\ pc' = "return"
    /\ UNCHANGED <<paletteVars, call, frame, raised, sprite, frames, prog,
                   shapes>>

\* The return to the guard's try block: the enhanced script returns True and
\* prints the success line, the sample script returns None.
return_to_guard ==
    /\ prog \in {"enhanced", "sample"} /\ pc = "return"
    /\ out' = IF prog = "enhanced"
              THEN Append(out, <<"Sprite creation completed successfully!">>)
              ELSE out
    /\ pc' = "exit"
    /\ UNCHANGED <<paletteVars, call, frame, raised, sprite, frames, files,
                   prog, shapes>>

\* The statement the script is at raises exception e instead of completing.
Raise(e) ==
    /\ pc \notin {"none", "raised", "exit", "uncaught"}
    /\ raised' = [exc |-> e, at |-> pc]
    /\ pc' = "raised"
    /\ UNCHANGED <<paletteVars, call, frame, spriteVars, prog, shapes>>

\* `except Exception as e:` prints the error line, then
\* traceback.print_exc() prints the trace, and the script ends.
Except ==
    /\ pc = "raised"
    /\ Caught(prog, raised)
    /\ out' = out \o << <<"Error creating sprite", raised.exc>>,
                        <<"Traceback", raised.exc>> >>
    /\ pc' = "exit"
    /\ UNCHANGED <<paletteVars, call, frame, raised, sprite, frames, files,
                   prog, shapes>>

\* No try statement encloses the statement that raised: the exception
\* leaves the script.
Uncaught ==
    /\ pc = "raised"
    /\ ~Caught(prog, raised)
    /\ pc' = "uncaught"
    /\ UNCHANGED <<paletteVars, call, frame, raised, spriteVars, prog, shapes>>

Next ==
    \/ Import
    \/ main_banner
    \/ create_sprite
    \/ define_colour
    \/ draw_frame
    \/ created
    \/ save_sprite
    \/ main_complete
    \/ new_image
    \/ draw_character
    \/ makedirs
    \/ save_image
    \/ save_large
    \/ return_to_guard
    \/ \E e \in Failures : Raise(e)
    \/ Except
    \/ Uncaught

Spec == Init /\ [][Next]_vars

(***************************************************************************)
(* The rectangle driver: a blank frame buffer of any shape up to           *)
(* RectMaxH x RectMaxW is made, and draw_rect_with_shading is called on it *)
(* once, with a rectangle in, across or beside the frame.                  *)
(***************************************************************************)

RectMaxW == 3
RectMaxH == 3

\* The palette of the rectangle driver: the sprite's (0, 0, 0) and the
\* quantized jacket_base, jacket_shadow and jacket_highlight, and their
\* indexes.
RectColours ==
    << <<0, 0, 0>>, <<72, 112, 168>>, <<48, 80, 120>>, <<96, 144, 200>> >>
RectIndexes == [base |-> 1, shadow |-> 2, highlight |-> 3]

InitRect ==
    /\ colors = RectColours
    /\ owner = "sprite"
    /\ script = "none"
    /\ pos = 0
    /\ first = <<>>
    /\ call = NoCall
    /\ slots = <<>>
    /\ \E h \in 1..RectMaxH : \E w \in 1..RectMaxW : frame = np_zeros(h, w)
    /\ raised = NoError
    /\ sprite = NoSprite
    /\ frames = <<>>
    /\ files = <<>>
    /\ out = <<>>
    /\ prog = "none"
    /\ pc = "none"
    /\ shapes = <<>>

\* self.draw_rect_with_shading(frame, palette, x, y, width, height, ...)
CallDrawRect(x, y, width, height) ==
    /\ call = NoCall
    /\ frame' = draw_rect_with_shading(frame, colors, x, y, width, height,
                    RectIndexes.base, RectIndexes.shadow, RectIndexes.highlight)
    /\ call' = [op |-> "draw_rect_with_shading",
                arg |-> <<x, y, width, height>>, ret |-> -1]
    /\ UNCHANGED <<paletteVars, raised, spriteVars, progVars>>

NextRect ==
    \E x \in -1..frame.w : \E y \in -1..frame.h :
        \E width \in 1..RectMaxW : \E height \in 1..RectMaxH :
            CallDrawRect(x, y, width, height)

SpecRect == InitRect /\ [][NextRect]_vars

(***************************************************************************)
(* The hair driver: a blank frame buffer of any shape up to                *)
(* HairMaxH x HairMaxW is made, and the hair of one direction is drawn on  *)
(* it once, centred in, at the edge of or beside the frame.                *)
(***************************************************************************)

HairMaxW == 6
HairMaxH == 4

\* The palette of the hair driver: the sprite's (0, 0, 0) and the quantized
\* hair_base, hair_shadow and hair_highlight, and their indexes.
HairColours ==
    << <<0, 0, 0>>, <<96, 64, 32>>, <<64, 40, 16>>, <<136, 88, 48>> >>
HairIndexes == [base |-> 1, shadow |-> 2, highlight |-> 3]

InitHair ==
    /\ colors = HairColours
    /\ owner = "sprite"
    /\ script = "none"
    /\ pos = 0
    /\ first = <<>>
    /\ call = NoCall
    /\ slots = <<>>
    /\ \E h \in 1..HairMaxH : \E w \in 1..HairMaxW : frame = np_zeros(h, w)
    /\ raised = NoError
    /\ sprite = NoSprite
    /\ frames = <<>>
    /\ files = <<>>
    /\ out = <<>>
    /\ prog = "none"
    /\ pc = "none"
    /\ shapes = <<>>

\* The hair of draw_legendary_character drawn at (cx, cy) for a direction.
CallDrawHair(cx, cy, direction) ==
    /\ call = NoCall
    /\ frame' = draw_hair(frame, colors, cx, cy, direction,
                    HairIndexes.base, HairIndexes.shadow, HairIndexes.highlight)
    /\ call' = [op |-> "draw_hair", arg |-> <<cx, cy, direction>>, ret |-> -1]
    /\ UNCHANGED <<paletteVars, raised, spriteVars, progVars>>

NextHair ==
    \E cx \in -1..frame.w : \E cy \in -1..frame.h :
        \E d \in 1..Len(Directions) : CallDrawHair(cx, cy, Directions[d])

SpecHair == InitHair /\ [][NextHair]_vars

(***************************************************************************)
(* Properties of the palette, checked under SpecPalette.                   *)
(***************************************************************************)

\* A channel with its low three bits cleared, written without Quantize.
ClearLow3(c) == <<c[1] - (c[1] % 8), c[2] - (c[2] % 8), c[3] - (c[3] % 8)>>

\* The last step was a call add_color(call.arg).
AddCalled == call.op = "add_color"

\* i (0-based) is the lowest index among the entries of cols nearest to c.
IsLowestNearest(cols, c, i) ==
    /\ i + 1 \in 1..Len(cols)
    /\ \A j \in 1..Len(cols) : DistSq(c, cols[i + 1]) <= DistSq(c, cols[j])
    /\ \A j \in 1..i : DistSq(c, cols[j]) > DistSq(c, cols[i + 1])

\* The colours add_color was called with so far, and their quantized triples.
Called == DOMAIN first
CalledQuantized == {ClearLow3(c) : c \in Called}

\* The called colours whose quantized triple the palette does not hold.
Unstored == {c \in Called : ~Contains(colors, ClearLow3(c))}

\* C1: the palette never holds more than 16 entries, no call makes it
\* shorter, and once it holds 16 entries no call changes it.
C1_CapacityFrozen ==
    /\ [](Len(colors) <= 16)
    /\ [][/\ Len(colors') >= Len(colors)
          /\ Len(colors) = 16 => colors' = colors]_vars

\* C1 witness: add_color was called with a new colour on a palette of 16.
C1_Witness ==
    /\ AddCalled
    /\ Len(colors) = 16
    /\ ~Contains(colors, ClearLow3(call.arg))

\* C2: add_color on a palette of fewer than 16 entries that lacks the
\* quantized triple appends exactly that triple (each channel with its low 3
\* bits cleared), keeps the earlier entries in place, and returns the length
\* the palette had before the call.
C2_AppendQuantized ==
    [][(/\ call'.op = "add_color"
        /\ Len(colors) < 16
        /\ ~Contains(colors, ClearLow3(call'.arg)))
       => (/\ colors' = Append(colors, ClearLow3(call'.arg))
           /\ call'.ret = Len(colors))]_vars

\* C2 witness: the last call appended a colour that quantization changed.
C2_Witness ==
    /\ AddCalled
    /\ Len(colors) >= 2
    /\ call.ret = Len(colors) - 1
    /\ call.arg # ClearLow3(call.arg)
    /\ colors[Len(colors)] = ClearLow3(call.arg)

\* C3 as stated: on a full palette a colour that is not stored resolves to
\* the lowest-index nearest entry; and once 20 distinct colours were inserted
\* into a fresh palette it holds exactly 16 colours and the 4 colours left
\* out each got the lowest index among their nearest entries.
C3_Original_TwentyDistinct ==
    /\ (AddCalled /\ Len(colors) = 16 /\ call.arg \in Unstored)
          => IsLowestNearest(colors, ClearLow3(call.arg), call.ret)
    /\ (owner = "palette" /\ Cardinality(Called) = 20)
          => (/\ Len(colors) = 16
              /\ Cardinality(Unstored) = 4
              /\ \A c \in Unstored :
                    IsLowestNearest(colors, ClearLow3(c), first[c]))

\* C3 amended: on a palette of 16 entries add_color of a colour whose
\* quantized triple is not stored changes nothing and returns the lowest
\* index among the nearest entries; and once 20 colours with pairwise
\* distinct quantized triples were inserted, the palette holds exactly 16
\* colours, 4 of the 20 are not stored, and each of those got the lowest
\* index among its nearest entries.
C3_NearestOnFull ==
    /\ [][(/\ call'.op = "add_color"
           /\ Len(colors) = 16
           /\ ~Contains(colors, ClearLow3(call'.arg)))
          => (/\ colors' = colors
              /\ IsLowestNearest(colors, ClearLow3(call'.arg), call'.ret))]_vars
    /\ []((Cardinality(Called) = 20 /\ Cardinality(CalledQuantized) = 20)
          => (/\ Len(colors) = 16
              /\ Cardinality(Unstored) = 4
              /\ \A c \in Unstored :
                    IsLowestNearest(colors, ClearLow3(c), first[c])))

\* C3 witness: 20 colours with distinct quantized triples were inserted and
\* the last one, not stored, has two nearest entries.
C3_Witness ==
    /\ Cardinality(Called) = 20
    /\ Cardinality(CalledQuantized) = 20
    /\ \E c \in Unstored : \E i, j \in 1..Len(colors) :
          /\ i < j
          /\ first[c] = i - 1
          /\ DistSq(ClearLow3(c), colors[i]) = DistSq(ClearLow3(c), colors[j])

\* C4: every call add_color(c) returns the index the first call add_color(c)
\* returned, and a call whose quantized triple is stored changes nothing.
C4_SameIndexAgain ==
    /\ [](AddCalled => (call.arg \in Called /\ call.ret = first[call.arg]))
    /\ [][(call'.op = "add_color" /\ Contains(colors, ClearLow3(call'.arg)))
          => colors' = colors]_vars

\* C4 witness: a colour was called again after other colours were stored
\* behind it.
C4_Witness ==
    /\ AddCalled
    /\ pos > 0
    /\ call.ret < Len(colors) - 2
    /\ Cardinality(Called) > Len(colors)
    /\ Contains(colors, ClearLow3(call.arg))

\* C5: no two entries of the palette are equal.
C5_NoDuplicates ==
    \A i, j \in 1..Len(colors) : colors[i] = colors[j] => i = j

\* C5 witness: two different colours with one quantized triple were inserted.
C5_Witness ==
    \E c, d \in Called :
        /\ c # d
        /\ ClearLow3(c) = ClearLow3(d)
        /\ Contains(colors, ClearLow3(c))

\* C6: the palette of a LegendarySprite always has an entry 0, and it is
\* <<0, 0, 0>>.
C6_SentinelAtZero ==
    owner = "sprite" => (Len(colors) >= 1 /\ colors[1] = <<0, 0, 0>>)

\* C6 witness: a sprite's palette was filled and add_color called on it.
C6_Witness ==
    /\ owner = "sprite"
    /\ AddCalled
    /\ Len(colors) = 16

(***************************************************************************)
(* Properties of set_pixel_safe, checked under SpecPixel.                  *)
(***************************************************************************)

\* (x, y) lies in [0, width) x [0, height) of frame f.
Inside(f, x, y) == x \in 0..(f.w - 1) /\ y \in 0..(f.h - 1)

\* C7: set_pixel_safe with x outside [0,width) or y outside [0,height)
\* leaves every pixel unchanged and raises nothing; with (x,y) inside it
\* sets the pixel at (x,y) and leaves every other pixel unchanged.
C7_SetPixelSafe ==
    [][call'.op = "set_pixel_safe" =>
        LET x == call'.arg[1]
            y == call'.arg[2]
            v == call'.arg[3]
        IN  /\ raised'.exc = "none"
            /\ frame'.h = frame.h /\ frame'.w = frame.w
            /\ DOMAIN frame'.px = DOMAIN frame.px
            /\ \A q \in DOMAIN frame.px :
                  frame'.px[q] = IF Inside(frame, x, y) /\ q = <<y, x>>
                                 THEN v ELSE frame.px[q]]_vars

\* C7 witness: after a pixel was written, a call with negative coordinates
\* that numpy would accept as indexes was made.
C7_Witness ==
    /\ call.op = "set_pixel_safe"
    /\ call.arg[1] = -1 /\ call.arg[2] = -frame.h
    /\ \E q \in DOMAIN frame.px : frame.px[q] # TransparentPixel
    /\ \E q \in DOMAIN frame.px : frame.px[q] = TransparentPixel

(***************************************************************************)
(* Properties of save_to_files, checked under SpecSheet.                   *)
(***************************************************************************)

\* The image written as the sprite's sheet.
Sheet == files[PngName(sprite, "out")]

\* C8: save_to_files on a sprite with N >= 1 frames of size W x H writes a
\* sheet of width N*W and height H whose W x H region at x = i*W equals
\* frame i, for every i in 0..N-1.
C8_SheetLayout ==
    (call.op = "save_to_files" /\ Len(frames) >= 1) =>
        /\ PngName(sprite, "out") \in DOMAIN files
        /\ Sheet.w = Len(frames) * sprite.width
        /\ Sheet.h = sprite.height
        /\ DOMAIN Sheet.px = (0..(Sheet.w - 1)) \X (0..(Sheet.h - 1))
        /\ \A i \in 0..(Len(frames) - 1) :
              \A x \in 0..(sprite.width - 1) : \A y \in 0..(sprite.height - 1) :
                  Sheet.px[<<i * sprite.width + x, y>>] = frames[i + 1].px[<<y, x>>]

\* C8 witness: a sprite wider than one pixel with three frames, the first
\* blank and the other two different, was saved.
C8_Witness ==
    /\ call.op = "save_to_files"
    /\ Len(frames) = 3
    /\ sprite.width = 2 /\ sprite.height = 2
    /\ frames[1] = np_zeros(2, 2)
    /\ frames[2] # frames[3]
    /\ frames[2] # frames[1] /\ frames[3] # frames[1]

(***************************************************************************)
(* Properties of the scripts' runs, checked under Spec.                    *)
(***************************************************************************)

\* The steps that build the palette, rasterize, composite, create the
\* directory or write the files.
WorkSteps == {"colours", "frames", "save", "draw", "makedirs", "save_large"}

\* The last two lines printed are the error line and the trace of raised.
ErrorReported ==
    /\ Len(out) >= 2
    /\ out[Len(out) - 1] = <<"Error creating sprite", raised.exc>>
    /\ out[Len(out)] = <<"Traceback", raised.exc>>

\* C9 as stated: in each of the three scripts, once a step that builds the
\* palette, rasterizes, composites, creates the directory or writes a file
\* has raised and the exception was dispatched, the script has ended through
\* its guard, with the error line and the trace printed; no failure has
\* left the script uncaught.
C9_GuardCatchesAll ==
    (raised.at \in WorkSteps /\ pc # "raised")
        => (pc = "exit" /\ ErrorReported)

\* The pixel the legs are drawn with (pants_highlight, quantized) and the
\* pixel of the shoes (shoes_base, quantized).
LegPixel == <<64, 64, 80, 255>>
ShoePixel == <<24, 24, 24, 255>>

\* The rows of column col of frame f that hold a leg pixel.
LegRows(f, col) == {y \in 0..(f.h - 1) : f.px[<<y, col>>] = LegPixel}

\* The leg of column col of frame f starts at row top: three rows of leg
\* pixels from top on, and the shoe in the row below them.
LegAt(f, col, top) ==
    /\ LegRows(f, col) = top..(top + 2)
    /\ f.px[<<top + 3, col>>] = ShoePixel

\* C10: in the legendary player sprite, for every direction, frames 0 and 2
\* have both legs (columns 6 and 9) at top row 11 and are equal pixel for
\* pixel, and frames 1 and 3 have the left leg at top row 11 + o and the
\* right leg at top row 11 - o, with o = -1 on frame 1 and o = +1 on frame 3.
C10_LegsOpposite ==
    (prog = "legendary" /\ script = "player") =>
        \A k \in 1..Len(frames) :
            LET frame_idx == (k - 1) % 4
                o == CASE frame_idx = 1 -> -1
                       [] frame_idx = 3 -> 1
                       [] OTHER -> 0
            IN  /\ LegAt(frames[k], 6, 11 + o)
                /\ LegAt(frames[k], 9, 11 - o)
                /\ frame_idx = 2 => frames[k] = frames[k - 2]

\* C10 witness: all 16 frames of the player sprite are drawn, and in each
\* direction frames 1 and 3 differ from each other and from frame 0.
C10_Witness ==
    /\ prog = "legendary" /\ script = "player"
    /\ Len(frames) = 16
    /\ \A d \in 0..3 :
          /\ frames[4 * d + 2] # frames[4 * d + 1]
          /\ frames[4 * d + 4] # frames[4 * d + 1]
          /\ frames[4 * d + 2] # frames[4 * d + 4]

\* The least element of a non-empty set of integers.
SetMin(S) == CHOOSE m \in S : \A n \in S : m <= n

\* The top row of the left leg as drawn in frame k (1-based) of the run: in
\* the legendary player sprite the first row of column 6 holding a leg
\* pixel, in the PIL scripts the top of the first rectangle filled with
\* pants_dark (the left leg).
LeftLegTop(k) ==
    IF prog = "legendary"
    THEN SetMin(LegRows(frames[k], 6))
    ELSE LET legs == SelectSeq(shapes[k], LAMBDA s : s.fill = pants_dark)
         IN  legs[1].at[2]

\* The frames drawn so far by the script's walking rows.
DrawnFrames ==
    IF prog = "legendary"
    THEN (IF script = "player" THEN 1..Len(frames) ELSE {})
    ELSE 1..Len(shapes)

\* The vertical offset of the left leg in frame k against frame 0 of the
\* same direction.
DrawnOffset(k) == LeftLegTop(k) - LeftLegTop(k - ((k - 1) % 4))

\* C11 as stated: in all three scripts the offset over the frame indexes
\* 0, 1, 2, 3 of each direction is 0, -1, 0, +1.
C11_Original_SamePattern ==
    \A k \in DrawnFrames : DrawnOffset(k) = <<0, -1, 0, 1>>[((k - 1) % 4) + 1]

\* C11 amended: the offset over the frame indexes 0, 1, 2, 3 of each
\* direction is 0, -1, 0, +1 in the legendary generator and 0, +1, 0, -1 in
\* the enhanced and the sample script.
C11_OffsetPattern ==
    \A k \in DrawnFrames :
        DrawnOffset(k) = IF prog = "legendary"
                         THEN <<0, -1, 0, 1>>[((k - 1) % 4) + 1]
                         ELSE <<0, 1, 0, -1>>[((k - 1) % 4) + 1]

\* C11 witness: the sample script has drawn all 16 frames, and the legs of
\* frames 1 and 3 of the last direction stand one row below and one row
\* above those of frame 0.
C11_Witness ==
    /\ prog = "sample"
    /\ Len(shapes) = 16
    /\ LeftLegTop(14) = LeftLegTop(13) + 1
    /\ LeftLegTop(16) = LeftLegTop(13) - 1

\* The pixel of an eye, (0, 0, 0) with the default alpha, and the pixel of
\* an arm (jacket_highlight, quantized: a rectangle one pixel wide is all
\* left edge).
EyePixel == <<0, 0, 0, 255>>
ArmPixel == <<96, 144, 200, 255>>

\* Frame f holds an eye at (x, 4); column col of f holds an arm in rows 7..9;
\* nothing was written to column col in rows 7..9.
EyeAt(f, x) == f.px[<<4, x>>] = EyePixel
ArmAt(f, col) == \A y \in 7..9 : f.px[<<y, col>>] = ArmPixel
NoArmAt(f, col) == \A y \in 7..9 : f.px[<<y, col>>] = TransparentPixel

\* C12: in every frame of the legendary player sprite, facing east leaves
\* the left arm (column 5, rows 7..9) unwritten, facing west leaves the
\* right arm (column 10, rows 7..9) unwritten, south and north have both
\* arms; south has both eyes (7,4) and (9,4), west only (7,4), east only
\* (9,4), north none.
C12_ArmsAndEyes ==
    (prog = "legendary" /\ script = "player") =>
        \A k \in 1..Len(frames) :
            LET f == frames[k]
                direction == <<"south", "west", "east", "north">>[((k - 1) \div 4) + 1]
            IN  /\ direction = "east" => NoArmAt(f, 5)
                /\ direction = "west" => NoArmAt(f, 10)
                /\ direction \in {"south", "north"} => ArmAt(f, 5) /\ ArmAt(f, 10)
                /\ direction = "south" => EyeAt(f, 7) /\ EyeAt(f, 9)
                /\ direction = "west" => EyeAt(f, 7) /\ ~EyeAt(f, 9)
                /\ direction = "east" => ~EyeAt(f, 7) /\ EyeAt(f, 9)
                /\ direction = "north" => ~EyeAt(f, 7) /\ ~EyeAt(f, 9)

\* C12 witness: all 16 frames are drawn; a west frame has its left arm and
\* its left eye, an east frame lacks both, a north frame has arms and no eye.
C12_Witness ==
    /\ prog = "legendary" /\ script = "player"
    /\ Len(frames) = 16
    /\ ArmAt(frames[5], 5) /\ EyeAt(frames[5], 7)
    /\ NoArmAt(frames[9], 5) /\ ~EyeAt(frames[9], 7)
    /\ ArmAt(frames[13], 10) /\ ~EyeAt(frames[13], 9)

(***************************************************************************)
(* Properties of draw_rect_with_shading, checked under SpecRect.           *)
(***************************************************************************)

\* The last step drew the rectangle call.arg = <<x, y, width, height>>, and
\* it lies fully inside the frame.
RectDrawnInside ==
    /\ call.op = "draw_rect_with_shading"
    /\ 0 <= call.arg[1] /\ call.arg[1] + call.arg[3] <= frame.w
    /\ 0 <= call.arg[2] /\ call.arg[2] + call.arg[4] <= frame.h

\* The pixels <<px, py>> of the rectangle call.arg.
RectCells ==
    (call.arg[1]..(call.arg[1] + call.arg[3] - 1))
        \X (call.arg[2]..(call.arg[2] + call.arg[4] - 1))

\* q lies on the top row or the left column of the rectangle call.arg; on
\* its bottom row or its right column.
OnTopLeft(q) == q[1] = call.arg[1] \/ q[2] = call.arg[2]
OnBottomRight(q) ==
    \/ q[1] = call.arg[1] + call.arg[3] - 1
    \/ q[2] = call.arg[2] + call.arg[4] - 1

\* The pixel of frame at <<px, py>> is the palette entry idx, opaque.
Shaded(q, idx) ==
    frame.px[<<q[2], q[1]>>] =
        <<RectColours[idx + 1][1], RectColours[idx + 1][2],
          RectColours[idx + 1][3], 255>>

\* C13 as stated: in a rectangle fully inside the frame every pixel on the
\* top row or left column has the highlight colour, every pixel on the
\* bottom row or right column has the shadow colour, and every other pixel
\* has the base colour.
C13_Original_EdgesShaded ==
    RectDrawnInside =>
        \A q \in RectCells :
            /\ OnTopLeft(q) => Shaded(q, RectIndexes.highlight)
            /\ OnBottomRight(q) => Shaded(q, RectIndexes.shadow)
            /\ (~OnTopLeft(q) /\ ~OnBottomRight(q)) => Shaded(q, RectIndexes.base)

\* C13 amended: in a rectangle fully inside the frame every pixel on the
\* top row or left column has the highlight colour, every pixel on the
\* bottom row or right column that is not on the top row or left column has
\* the shadow colour, and every other pixel has the base colour.
C13_EdgesShaded ==
    RectDrawnInside =>
        \A q \in RectCells :
            /\ OnTopLeft(q) => Shaded(q, RectIndexes.highlight)
            /\ (OnBottomRight(q) /\ ~OnTopLeft(q)) => Shaded(q, RectIndexes.shadow)
            /\ (~OnTopLeft(q) /\ ~OnBottomRight(q)) => Shaded(q, RectIndexes.base)

\* C13 witness: a 3 x 3 rectangle was drawn inside the frame; it has the
\* three colours, and its top right corner has the highlight colour.
C13_Witness ==
    /\ RectDrawnInside
    /\ call.arg[3] = 3 /\ call.arg[4] = 3
    /\ Shaded(<<call.arg[1] + 1, call.arg[2] + 1>>, RectIndexes.base)
    /\ Shaded(<<call.arg[1] + 2, call.arg[2] + 2>>, RectIndexes.shadow)
    /\ Shaded(<<call.arg[1] + 2, call.arg[2]>>, RectIndexes.highlight)

(***************************************************************************)
(* Properties of the hair, checked under SpecHair.                         *)
(***************************************************************************)

\* The last step drew hair centred on column call.arg[1] from row
\* call.arg[2] on, and the three rows and five columns of the hair lie
\* inside the frame.
HairDrawnInside ==
    /\ call.op = "draw_hair"
    /\ 0 <= call.arg[1] - 2 /\ call.arg[1] + 2 < frame.w
    /\ 0 <= call.arg[2] /\ call.arg[2] + 2 < frame.h

\* The pixels <<x, y>> the call wrote on the blank frame.
HairWritten ==
    {<<q[2], q[1]>> : q \in {p \in DOMAIN frame.px : frame.px[p] # TransparentPixel}}

\* The written pixels mirrored about column call.arg[1] are the written
\* pixels; pixels are written left of that column; right of it.
HairMirrored ==
    {<<2 * call.arg[1] - q[1], q[2]>> : q \in HairWritten} = HairWritten
HairOnLeft == \E q \in HairWritten : q[1] < call.arg[1]
HairOnRight == \E q \in HairWritten : q[1] > call.arg[1]

\* C14 as stated: the hair pixels written facing north are mirror-symmetric
\* about cx, and those written facing south, west or east are not, the
\* pixels of one side of cx not being drawn.
C14_Original_OneSideHidden ==
    HairDrawnInside =>
        IF call.arg[3] = "north"
        THEN HairMirrored
        ELSE ~HairMirrored /\ (~HairOnLeft \/ ~HairOnRight)

\* C14 amended: the hair pixels written facing north are mirror-symmetric
\* about cx; facing west no pixel right of cx is drawn and facing east no
\* pixel left of cx is drawn, so the shape is not symmetric; facing south
\* the pixels of both sides are drawn.
C14_HairShape ==
    HairDrawnInside =>
        /\ call.arg[3] = "north" => (HairMirrored /\ HairOnLeft /\ HairOnRight)
        /\ call.arg[3] = "west" => (~HairMirrored /\ HairOnLeft /\ ~HairOnRight)
        /\ call.arg[3] = "east" => (~HairMirrored /\ ~HairOnLeft /\ HairOnRight)
        /\ call.arg[3] = "south" => (HairOnLeft /\ HairOnRight)

\* C14 witness: hair facing west was drawn away from the frame's edges, and
\* it has pixels in all its three rows.
C14_Witness ==
    /\ HairDrawnInside
    /\ call.arg[3] = "west"
    /\ call.arg[1] - 2 > 0
    /\ \A dy \in 0..2 : \E q \in HairWritten : q[2] = call.arg[2] + dy

(***************************************************************************)
(* More properties of the legendary generator's run, checked under Spec.   *)
(***************************************************************************)

\* Pixel v is fully transparent, or fully opaque with the RGB triple of an
\* entry of the palette.
PalettePixelOrClear(v) ==
    \/ v = <<0, 0, 0, 0>>
    \/ /\ v[4] = 255
       /\ \E i \in 1..Len(colors) : colors[i] = <<v[1], v[2], v[3]>>

\* The steps of a sprite from its first pixel write to its export.
Rasterizing == {"frames", "created", "save"}

\* C15: in both sprites of the legendary generator every pixel of every
\* frame added so far, and of the sheet written for the sprite, is fully
\* transparent or fully opaque with the RGB triple of an entry of the
\* sprite's palette; and from the first pixel write to the export no step
\* changes the palette.
C15_PaletteDiscipline ==
    /\ [](prog = "legendary" =>
            /\ \A k \in 1..Len(frames) : \A q \in DOMAIN frames[k].px :
                  PalettePixelOrClear(frames[k].px[q])
            /\ PngName(sprite, OutputDir) \in DOMAIN files =>
                  \A q \in DOMAIN files[PngName(sprite, OutputDir)].px :
                      PalettePixelOrClear(files[PngName(sprite, OutputDir)].px[q]))
    /\ [][(prog = "legendary" /\ pc \in Rasterizing) => colors' = colors]_vars

\* C15 witness: the tileset, the second sprite, is exported; its sheet holds
\* pixels of more than two palette entries, and the player's sheet, written
\* before it, holds transparent and opaque pixels.
C15_Witness ==
    /\ prog = "legendary" /\ script = "tiles" /\ pc = "complete"
    /\ PngName(sprite, OutputDir) \in DOMAIN files
    /\ Cardinality({files[PngName(sprite, OutputDir)].px[q] :
                       q \in DOMAIN files[PngName(sprite, OutputDir)].px}) > 2
    /\ LET player == files[<<OutputDir, "/", "legendary_player", ".png">>]
       IN  /\ \E q \in DOMAIN player.px : player.px[q] = <<0, 0, 0, 0>>
           /\ \E q \in DOMAIN player.px : player.px[q][4] = 255

(***************************************************************************)
(* The sheet of the PIL scripts, checked under Spec.                       *)
(***************************************************************************)

\* The pixels <<column, row>> of the 64 x 64 image of Image.new that an
\* ImageDraw call can write: PIL's boxes hold both their corners, and what
\* lies off the image is clipped.  A rectangle with a fill writes every one
\* of these pixels; an ellipse, an arc and a point write pixels among them.
ShapeExtent(s) ==
    LET x1 == IF s.op = "point" THEN s.at[1] ELSE s.at[3]
        y1 == IF s.op = "point" THEN s.at[2] ELSE s.at[4]
    IN  {q \in (s.at[1]..x1) \X (s.at[2]..y1) :
            q[1] \in 0..63 /\ q[2] \in 0..63}

\* The cell [x, x+16) x [y, y+16) of frame i (0-based) of the 4 x 4 grid.
Cell(i) ==
    (FrameOrigin(i)[1]..(FrameOrigin(i)[1] + 15))
        \X (FrameOrigin(i)[2]..(FrameOrigin(i)[2] + 15))

\* C16: in the scripts that write player.png, every draw call made for a
\* frame writes only pixels of that frame's own 16 x 16 cell of the sheet,
\* walking frames included.
C16_OwnCell ==
    prog \in {"enhanced", "sample"} =>
        \A k \in 1..Len(shapes) : \A j \in 1..Len(shapes[k]) :
            ShapeExtent(shapes[k][j]) \subseteq Cell(k - 1)

=============================================================================
